---- MODULE Spec2Model ----
(***************************************************************************)
(* The quiz session server of src/index.ts: one shared AppState, the       *)
(* countdown held in timerInterval, and one action per socket.io handler.  *)
(* Handlers run to completion, so each is one atomic step.                 *)
(***************************************************************************)
EXTENDS Integers, Sequences, FiniteSets, TLC

\* ---- bounds of the model ------------------------------------------------
MaxPlayerId == 2      \* player ids sent by clients are 1..MaxPlayerId
MaxSockets == 2       \* connections open at the same time
MaxTimeLimit == 2     \* quiz.timeLimit sent by the administrator
MaxClock == 0         \* Date.now() returns a value of 0..MaxClock
MaxAnswer == 0        \* answer / correct-answer indices are 0..MaxAnswer
RMaxPlayerId == 3     \* player ids 1..RMaxPlayerId in the winner-resolution states
RMaxClock == 1        \* timestamps 0..RMaxClock in the winner-resolution states
MaxHistory == 1       \* startQuiz is not issued once history is this long

\* ---- values -------------------------------------------------------------
NoId == -1            \* socket.data.playerId before join (undefined)
NoName == "undefined" \* socket.data.playerName before join (undefined)
Null == -1            \* correctAnswerIndex: null
NoAnswer == -2        \* answerIndex?: absent

PlayerIds == 1..MaxPlayerId
Names == {"A"}
Players == [id : PlayerIds, name : Names]
Clock == 0..MaxClock
Answers == {NoAnswer} \cup (0..MaxAnswer)
QuizModes == {"idle", "fastest_finger", "reveal_answer", "show_results"}

initialQuizState ==
  [question |-> "", options |-> <<"", "", "", "", "">>,
   correctAnswerIndex |-> Null, timeLimit |-> 30]

\* quizzes the administrator sends with admin:startQuiz
Quizzes ==
  [question : {"Q1"}, options : {<<"a", "b", "c", "d", "e">>},
   correctAnswerIndex : {Null} \cup (0..MaxAnswer), timeLimit : 0..MaxTimeLimit]

VARIABLES
  quizMode,       \* appState.quizMode
  currentQuiz,    \* appState.currentQuiz
  submissions,    \* appState.submissions (arrival order)
  timer,          \* appState.timer
  participants,   \* appState.participants
  winners,        \* appState.winners
  history,        \* appState.history; alias = the entry's submissions is the
                  \* very array appState.submissions still points to
  timerInterval,  \* TRUE iff timerInterval holds a pending setInterval
  sockets,        \* open connections in connection order, each its socket.data
  broadcasts,     \* number of broadcastState() calls of the last handler
  ticks,          \* interval callbacks fired since the pending setInterval
  barred          \* ids added to winners and not reset by resetWinner /
                  \* resetAllWinners since

appState == <<quizMode, currentQuiz, submissions, timer, participants, winners, history>>
vars == <<quizMode, currentQuiz, submissions, timer, participants, winners, history,
          timerInterval, sockets, broadcasts, ticks, barred>>

\* ---- helpers ------------------------------------------------------------
Range(s) == {s[k] : k \in 1..Len(s)}
Ids(s) == {s[k].playerId : k \in 1..Len(s)}

\* JavaScript truthiness of socket.data.playerId / playerName
TruthyId(id) == id # NoId /\ id # 0
TruthyName(name) == name # NoName /\ name # ""


\* s without its k-th element
RemoveAt(s, k) == SubSeq(s, 1, k - 1) \o SubSeq(s, k + 1, Len(s))

\* appState.participants.filter(p => p.id !== id)
RemoveParticipant(ps, id) == SelectSeq(ps, LAMBDA p : p.id # id)

RemoveWinner_Kept(ws, id) == ws

\* appState.winners.filter(w => w !== id)
RemoveWinner(ws, id) == SelectSeq(ws, LAMBDA w : w # id)

Unalias_Shared(h) == h

\* a fresh array replaces appState.submissions: logged entries stop aliasing it
Unalias(h) == [k \in 1..Len(h) |-> [h[k] EXCEPT !.alias = FALSE]]

\* appState.submissions.push(sub) seen through every reference to that array
PushAliased(h, sub) ==
  [k \in 1..Len(h) |->
     IF h[k].alias THEN [h[k] EXCEPT !.submissions = Append(@, sub)] ELSE h[k]]

Init ==
  /\ quizMode = "idle"
  /\ currentQuiz = initialQuizState
  /\ submissions = <<>>
  /\ timer = 0
  /\ participants = <<>>
  /\ winners = <<>>
  /\ history = <<>>
  /\ timerInterval = FALSE
  /\ sockets = <<>>
  /\ broadcasts = 0
  /\ ticks = 0
  /\ barred = {}

\* ---- connection layer ---------------------------------------------------
Connection ==
  /\ Len(sockets) < MaxSockets
  /\ sockets' = Append(sockets, [playerId |-> NoId, playerName |-> NoName])
  /\ broadcasts' = 0
  /\ UNCHANGED <<appState, timerInterval, ticks, barred>>

Join_NoCheck(i, player) ==
  /\ i \in 1..Len(sockets)
  /\ sockets' = [sockets EXCEPT ![i] = [playerId |-> player.id, playerName |-> player.name]]
  /\ participants' = Append(participants, player)
  /\ broadcasts' = 1
  /\ UNCHANGED <<quizMode, currentQuiz, submissions, timer, winners, history,
                 timerInterval, ticks, barred>>

Join(i, player) ==
  /\ i \in 1..Len(sockets)
  /\ sockets' = [sockets EXCEPT ![i] = [playerId |-> player.id, playerName |-> player.name]]
  /\ participants' =
       IF \E k \in 1..Len(participants) : participants[k].id = player.id
       THEN participants
       ELSE Append(participants, player)
  /\ broadcasts' = 1
  /\ UNCHANGED <<quizMode, currentQuiz, submissions, timer, winners, history,
                 timerInterval, ticks, barred>>

\* the 'disconnect' handler of a socket whose data is d
DisconnectEffect(d, ps, ws) ==
  IF TruthyId(d.playerId)
  THEN [participants |-> RemoveParticipant(ps, d.playerId),
        winners |-> RemoveWinner(ws, d.playerId), broadcasts |-> 1]
  ELSE [participants |-> ps, winners |-> ws, broadcasts |-> 0]

Disconnect(i) ==
  /\ i \in 1..Len(sockets)
  /\ LET r == DisconnectEffect(sockets[i], participants, winners) IN
       /\ participants' = r.participants
       /\ winners' = r.winners
       /\ broadcasts' = r.broadcasts
  /\ sockets' = RemoveAt(sockets, i)
  /\ UNCHANGED <<quizMode, currentQuiz, submissions, timer, history,
                 timerInterval, ticks, barred>>

stopTimer_Forgotten == timerInterval

\* timerInterval once stopTimer() has run: clearInterval, timerInterval = null
stopTimer == FALSE

LoggedEntry_Empty == [quiz |-> currentQuiz, submissions |-> <<>>, alias |-> TRUE]

\* ---- countdown ----------------------------------------------------------
\* endQuizAndLogHistory pushes {quiz: currentQuiz, submissions: submissions};
\* the entry holds the live submissions array itself, not a copy
LoggedEntry == [quiz |-> currentQuiz, submissions |-> submissions, alias |-> TRUE]

\* stopTimer(); quizMode = 'reveal_answer'; history.push(...); broadcastState()
endQuizAndLogHistory ==
  /\ timerInterval' = stopTimer
  /\ ticks' = 0
  /\ quizMode' = "reveal_answer"
  /\ history' = Append(history, LoggedEntry)
  /\ broadcasts' = 1
  /\ UNCHANGED <<currentQuiz, submissions, timer, participants, winners, sockets, barred>>

\* the branch of the interval callback that counts down
TickDecrements == timer > 0

Tick_NoExpiry ==
  /\ timerInterval
  /\ timer > 0
  /\ timer' = timer - 1
  /\ ticks' = ticks + 1
  /\ broadcasts' = 1
  /\ UNCHANGED <<quizMode, currentQuiz, submissions, participants, winners,
                 history, timerInterval, sockets, barred>>

\* one firing of the setInterval callback installed by startTimer
Tick ==
  /\ timerInterval
  /\ IF TickDecrements
     THEN /\ timer' = timer - 1
          /\ ticks' = ticks + 1
          /\ broadcasts' = 1
          /\ UNCHANGED <<quizMode, currentQuiz, submissions, participants, winners,
                         history, timerInterval, sockets, barred>>
     ELSE endQuizAndLogHistory

StartValue_OffByOne(quiz) == IF quiz.timeLimit > 0 THEN quiz.timeLimit - 1 ELSE 0

\* ---- administrator commands ---------------------------------------------
\* the value startTimer loads into appState.timer
StartValue(quiz) == quiz.timeLimit

\* the handler of admin:startQuiz, startTimer() included
startQuiz(quiz) ==
  /\ quizMode' = "fastest_finger"
  /\ currentQuiz' = quiz
  /\ submissions' = <<>>
  /\ history' = Unalias(history)
  /\ timer' = StartValue(quiz)
  /\ timerInterval' = TRUE
  /\ ticks' = 0
  /\ broadcasts' = 2
  /\ UNCHANGED <<participants, winners, sockets, barred>>

\* the administrator starts no further quiz once history holds MaxHistory entries
StartQuiz(quiz) ==
  /\ Len(history) < MaxHistory
  /\ startQuiz(quiz)

ForceEndQuiz_Unguarded == endQuizAndLogHistory

ForceEndQuiz ==
  IF quizMode = "fastest_finger"
  THEN endQuizAndLogHistory
  ELSE /\ broadcasts' = 0
       /\ UNCHANGED <<appState, timerInterval, sockets, ticks, barred>>

\* .filter(sub => sub.answerIndex === correctIndex)
IsCorrect(sub, correctIndex) == sub.answerIndex = correctIndex

StaysBefore_Strict(a, b) == a.timestamp < b.timestamp

\* a goes before b under the comparator (a, b) => a.timestamp - b.timestamp
\* of a stable sort when a arrived first
StaysBefore(a, b) == a.timestamp <= b.timestamp

RECURSIVE InsertSorted(_, _)
InsertSorted(sorted, x) ==
  IF sorted = <<>> THEN <<x>>
  ELSE LET last == sorted[Len(sorted)] IN
         IF StaysBefore(last, x)
         THEN Append(sorted, x)
         ELSE Append(InsertSorted(SubSeq(sorted, 1, Len(sorted) - 1), x), last)

\* Array.prototype.sort by timestamp (stable)
RECURSIVE SortByTimestamp(_)
SortByTimestamp(s) ==
  IF s = <<>> THEN <<>>
  ELSE InsertSorted(SortByTimestamp(SubSeq(s, 1, Len(s) - 1)), s[Len(s)])

fastestCorrectSubmissions(subs, correctIndex) ==
  IF correctIndex # Null
  THEN SortByTimestamp(SelectSeq(subs, LAMBDA sub : IsCorrect(sub, correctIndex)))
  ELSE <<>>

top2Winners_Three(sorted) == SubSeq(sorted, 1, IF Len(sorted) < 3 THEN Len(sorted) ELSE 3)

\* .slice(0, 2)
top2Winners(sorted) == SubSeq(sorted, 1, IF Len(sorted) < 2 THEN Len(sorted) ELSE 2)

\* top2Winners.forEach: push the id unless winners already includes it
RECURSIVE AddWinners(_, _)
AddWinners(ws, top) ==
  IF top = <<>> THEN ws
  ELSE LET id == top[1].playerId IN
         AddWinners(IF id \in Range(ws) THEN ws ELSE Append(ws, id), Tail(top))

AnswersRevealed_Always == TRUE

\* if (appState.quizMode === 'reveal_answer')
AnswersRevealed == quizMode = "reveal_answer"

ShowResults ==
  IF AnswersRevealed
  THEN /\ winners' = AddWinners(winners,
            top2Winners(fastestCorrectSubmissions(submissions, currentQuiz.correctAnswerIndex)))
       /\ barred' = barred \cup Range(winners')
       /\ quizMode' = "show_results"
       /\ broadcasts' = 1
       /\ UNCHANGED <<currentQuiz, submissions, timer, participants, history,
                      timerInterval, sockets, ticks>>
  ELSE /\ broadcasts' = 0
       /\ UNCHANGED <<appState, timerInterval, sockets, ticks, barred>>

ResetTimerValue_Stale == timer

\* the timer field of the state resetQuiz installs
ResetTimerValue == 0

ResetQuiz ==
  /\ timerInterval' = stopTimer
  /\ ticks' = 0
  /\ quizMode' = "idle"
  /\ currentQuiz' = initialQuizState
  /\ submissions' = <<>>
  /\ history' = Unalias(history)
  /\ timer' = ResetTimerValue
  /\ broadcasts' = 1
  /\ UNCHANGED <<participants, winners, sockets, barred>>

ResetWinner(playerId) ==
  /\ winners' = RemoveWinner(winners, playerId)
  /\ barred' = barred \ {playerId}
  /\ broadcasts' = 1
  /\ UNCHANGED <<quizMode, currentQuiz, submissions, timer, participants, history,
                 timerInterval, sockets, ticks>>

ResetAllWinners ==
  /\ winners' = <<>>
  /\ barred' = {}
  /\ broadcasts' = 1
  /\ UNCHANGED <<quizMode, currentQuiz, submissions, timer, participants, history,
                 timerInterval, sockets, ticks>>

\* the first open socket bound to playerId (io.sockets.sockets iterates in
\* connection order), 0 when there is none
FoundSocket(playerId) ==
  IF \E k \in 1..Len(sockets) : sockets[k].playerId = playerId
  THEN CHOOSE k \in 1..Len(sockets) :
         /\ sockets[k].playerId = playerId
         /\ \A j \in 1..(k - 1) : sockets[j].playerId # playerId
  ELSE 0

\* foundSocket.disconnect(true) runs that socket's 'disconnect' handler before
\* the two filters of the command itself
ForceLogoutParticipant(playerId) ==
  /\ LET k == FoundSocket(playerId)
         r == IF k # 0
              THEN DisconnectEffect(sockets[k], participants, winners)
              ELSE [participants |-> participants, winners |-> winners, broadcasts |-> 0]
     IN
       /\ sockets' = IF k # 0 THEN RemoveAt(sockets, k) ELSE sockets
       /\ participants' = RemoveParticipant(r.participants, playerId)
       /\ winners' = RemoveWinner(r.winners, playerId)
       /\ broadcasts' = r.broadcasts + 1
  /\ UNCHANGED <<quizMode, currentQuiz, submissions, timer, history,
                 timerInterval, ticks, barred>>

ClearHistory ==
  /\ history' = <<>>
  /\ broadcasts' = 1
  /\ UNCHANGED <<quizMode, currentQuiz, submissions, timer, participants, winners,
                 timerInterval, sockets, ticks, barred>>

\* ---- participant:submitAnswer -------------------------------------------
\* if (!playerId || !playerName) return
NoIdentity(d) == ~TruthyId(d.playerId) \/ ~TruthyName(d.playerName)

IsWinner_Never(playerId) == FALSE

\* appState.winners.includes(playerId)
IsWinner(playerId) == playerId \in Range(winners)

WindowClosed_Never == FALSE

\* appState.quizMode !== 'fastest_finger'
WindowClosed == quizMode # "fastest_finger"

AlreadySubmitted_Never(playerId) == FALSE

\* appState.submissions.some(s => s.playerId === playerId)
AlreadySubmitted(playerId) == playerId \in Ids(submissions)

Rejected(d) ==
  \/ NoIdentity(d)
  \/ IsWinner(d.playerId)
  \/ WindowClosed
  \/ AlreadySubmitted(d.playerId)

SubmitAnswer(i, answerIndex, now) ==
  /\ i \in 1..Len(sockets)
  /\ LET d == sockets[i] IN
       IF Rejected(d)
       THEN /\ broadcasts' = 0
            /\ UNCHANGED <<appState, timerInterval, sockets, ticks, barred>>
       ELSE LET newSubmission ==
                  [playerId |-> d.playerId, playerName |-> d.playerName,
                   answerIndex |-> answerIndex, timestamp |-> now]
            IN
              /\ submissions' = Append(submissions, newSubmission)
              /\ history' = PushAliased(history, newSubmission)
              /\ broadcasts' = 1
              /\ UNCHANGED <<quizMode, currentQuiz, timer, participants, winners,
                             timerInterval, sockets, ticks, barred>>

Next ==
  \/ Connection
  \/ \E i \in 1..MaxSockets, player \in Players : Join(i, player)
  \/ \E i \in 1..MaxSockets : Disconnect(i)
  \/ \E i \in 1..MaxSockets, answerIndex \in Answers, now \in Clock :
       SubmitAnswer(i, answerIndex, now)
  \/ Tick
  \/ \E quiz \in Quizzes : StartQuiz(quiz)
  \/ ForceEndQuiz
  \/ ShowResults
  \/ ResetQuiz
  \/ \E playerId \in PlayerIds : ResetWinner(playerId)
  \/ ResetAllWinners
  \/ \E playerId \in PlayerIds : ForceLogoutParticipant(playerId)
  \/ ClearHistory

Spec == Init /\ [][Next]_vars

\* ---- winner resolution on its own ---------------------------------------
\* States in which admin:showResults finds the session: answer window closed,
\* every submitter and every earlier winner on a connection of their own, the
\* closed quiz logged, submissions stamped by Date.now() in any order.
RSubmissions ==
  [playerId : 1..RMaxPlayerId, playerName : Names,
   answerIndex : Answers, timestamp : 0..RMaxClock]

RDistinct(s) == \A j, k \in 1..Len(s) : j # k => s[j] # s[k]

RSubmissionSeqs ==
  UNION {{s \in [1..n -> RSubmissions] :
            \A j, k \in 1..n : j # k => s[j].playerId # s[k].playerId} :
         n \in 0..RMaxPlayerId}

RWinnerSeqs ==
  UNION {{w \in [1..n -> 1..RMaxPlayerId] : RDistinct(w)} : n \in 0..RMaxPlayerId}

\* the ids of set S in ascending order
RECURSIVE Ascending(_)
Ascending(S) ==
  IF S = {} THEN <<>>
  ELSE LET m == CHOOSE x \in S : \A y \in S : x <= y IN <<m>> \o Ascending(S \ {m})

InitResolver ==
  /\ quizMode = "reveal_answer"
  /\ currentQuiz \in {q \in Quizzes : q.timeLimit = 0}
  /\ submissions \in RSubmissionSeqs
  /\ winners \in {w \in RWinnerSeqs : Range(w) \cap Ids(submissions) = {}}
  /\ timer = 0
  /\ LET joined == Ascending(Range(winners) \cup Ids(submissions)) IN
       /\ participants = [k \in 1..Len(joined) |-> [id |-> joined[k], name |-> "A"]]
       /\ sockets = [k \in 1..Len(joined) |-> [playerId |-> joined[k], playerName |-> "A"]]
  /\ history = <<LoggedEntry>>
  /\ timerInterval = FALSE
  /\ broadcasts = 1
  /\ ticks = 0
  /\ barred = Range(winners)

NextResolver == ShowResults

SpecResolver == InitResolver /\ [][NextResolver]_vars

\* ---- properties ---------------------------------------------------------
\* what a history entry holds, without the model's alias mark
Logged(h) == [k \in 1..Len(h) |-> [quiz |-> h[k].quiz, submissions |-> h[k].submissions]]

ParticipantIds == {participants[k].id : k \in 1..Len(participants)}

\* C1: in every reachable state no two entries of submissions have the same
\* playerId.
C1_OneSubmissionPerPlayer ==
  \A j, k \in 1..Len(submissions) :
    j # k => submissions[j].playerId # submissions[k].playerId

\* a duplicate was just dropped: window open, every open connection belongs to
\* a player who has already answered, and the last handler broadcast nothing
C1_Witness ==
  /\ quizMode = "fastest_finger"
  /\ Len(sockets) = MaxSockets
  /\ Len(submissions) = MaxPlayerId
  /\ \A i \in 1..Len(sockets) : sockets[i].playerId \in Ids(submissions)
  /\ broadcasts = 0

\* C2: once a player id is in winners, no later submitAnswer of that player is
\* accepted unless resetWinner(id) or resetAllWinners happened in between
\* (barred holds exactly the ids added to winners and not reset since).
C2_BarredNeverAccepted ==
  [][\A p \in PlayerIds :
       (p \in barred /\ p \notin Ids(submissions)) => p \notin Ids(submissions')]_vars

\* the step admin:showResults takes when it is accepted
ResultsShown == quizMode = "reveal_answer" /\ quizMode' = "show_results"

CorrectIdx ==
  IF currentQuiz.correctAnswerIndex = Null THEN {}
  ELSE {k \in 1..Len(submissions) :
          submissions[k].answerIndex = currentQuiz.correctAnswerIndex}

\* C3: an accepted showResults adds at most 2 ids to winners, each the playerId
\* of a submission whose answerIndex equals correctAnswerIndex, and none when
\* correctAnswerIndex is unset.
C3_AtMostTwoCorrectAdded ==
  [][ResultsShown =>
       LET added == Range(winners') \ Range(winners) IN
         /\ Cardinality(added) <= 2
         /\ \A id \in added : \E k \in CorrectIdx : submissions[k].playerId = id
         /\ currentQuiz.correctAnswerIndex = Null => added = {}
         /\ \A k \in 1..Len(winners) : winners'[k] = winners[k]]_vars

\* three players answered correctly and showResults made two of them winners
C3_Witness ==
  /\ quizMode = "show_results"
  /\ Cardinality(CorrectIdx) = 3
  /\ Cardinality(Range(winners) \cap Ids(submissions)) = 2

\* number of correct submissions that go before the k-th one: earlier
\* timestamp, or the same timestamp and earlier arrival
Rank(k) ==
  Cardinality({j \in CorrectIdx :
     \/ submissions[j].timestamp < submissions[k].timestamp
     \/ submissions[j].timestamp = submissions[k].timestamp /\ j < k})

Placed(r) ==
  IF \E k \in CorrectIdx : Rank(k) = r
  THEN <<submissions[CHOOSE k \in CorrectIdx : Rank(k) = r].playerId>>
  ELSE <<>>

\* C4: showResults appends to winners the ids of the two correct submissions
\* with the smallest timestamps, in ascending timestamp order, equal
\* timestamps in arrival order.
C4_FastestTwoInOrder ==
  [][ResultsShown => winners' = winners \o Placed(0) \o Placed(1)]_vars

\* correct answers arrived from 1, 2, 3 stamped 1, 0, 1: winners gained 2, 1
\* (2 is earliest; 1 and 3 tie and 1 arrived first), 3 is left out
C4_Witness ==
  /\ quizMode = "show_results"
  /\ Len(submissions) = 3
  /\ CorrectIdx = {1, 2, 3}
  /\ \A k \in 1..3 : submissions[k].playerId = k
  /\ submissions[1].timestamp = 1
  /\ submissions[2].timestamp = 0
  /\ submissions[3].timestamp = 1
  /\ winners = <<2, 1>>

C6_CountdownOfT ==
  [][/\ (\E quiz \in Quizzes : StartQuiz(quiz)) =>
          timer' = currentQuiz'.timeLimit /\ ticks' = 0
     /\ Tick =>
          IF timer > 0
          THEN /\ timer' = timer - 1
               /\ timer' + ticks' = currentQuiz.timeLimit
               /\ broadcasts' = 1
               /\ quizMode' = "fastest_finger"
               /\ timerInterval'
          ELSE /\ timer = 0
               /\ ticks = currentQuiz.timeLimit
               /\ quizMode = "fastest_finger"
               /\ quizMode' = "reveal_answer"]_vars

\* a countdown of MaxTimeLimit has ticked down to 0 and is about to expire
C6_Witness ==
  /\ timerInterval
  /\ currentQuiz.timeLimit = MaxTimeLimit
  /\ ticks = MaxTimeLimit
  /\ timer = 0

\* the conditions under which the claim says a submission is rejected
MustReject(d) ==
  \/ d.playerId = NoId
  \/ d.playerName = NoName
  \/ d.playerId \in Range(winners)
  \/ quizMode # "fastest_finger"
  \/ \E k \in 1..Len(submissions) : submissions[k].playerId = d.playerId

\* C7: a submitAnswer from a connection without identity, from a winner,
\* outside fastest_finger, or from a player who already answered leaves the
\* whole AppState unchanged and broadcasts nothing.
C7_RejectedSubmitChangesNothing ==
  [][\A i \in 1..Len(sockets), answerIndex \in Answers, now \in Clock :
       (SubmitAnswer(i, answerIndex, now) /\ MustReject(sockets[i])) =>
         /\ UNCHANGED appState
         /\ broadcasts' = 0]_vars

\* a winner with an open connection in an open window, nothing broadcast last
C7_Witness ==
  /\ quizMode = "fastest_finger"
  /\ broadcasts = 0
  /\ Len(sockets) = MaxSockets
  /\ \A i \in 1..Len(sockets) : sockets[i].playerId \in Range(winners)

\* C8: resetQuiz in any phase sets phase idle, submissions empty, timer 0 and
\* currentQuiz to the empty template, and leaves history, winners and
\* participants unchanged.
C8_ResetQuizFrame ==
  [][ResetQuiz =>
       /\ quizMode' = "idle"
       /\ submissions' = <<>>
       /\ timer' = 0
       /\ currentQuiz'.question = ""
       /\ currentQuiz'.options = [k \in 1..5 |-> ""]
       /\ currentQuiz'.correctAnswerIndex = Null
       /\ currentQuiz'.timeLimit = 30
       /\ Logged(history') = Logged(history)
       /\ winners' = winners
       /\ participants' = participants]_vars

\* reset after a quiz that was logged and produced a winner
C8_Witness ==
  /\ quizMode = "idle"
  /\ currentQuiz = initialQuizState
  /\ submissions = <<>>
  /\ timer = 0
  /\ Len(history) = 1
  /\ Len(history[1].submissions) >= 1
  /\ winners # <<>>
  /\ participants # <<>>

\* C9: after forceLogoutParticipant(id), id is in neither participants nor
\* winners, and every other participant and winner is left as it was.
C9_ForceLogoutRemovesOnlyId ==
  [][\A id \in PlayerIds :
       ForceLogoutParticipant(id) =>
         /\ id \notin {participants'[k].id : k \in 1..Len(participants')}
         /\ id \notin Range(winners')
         /\ participants' = SelectSeq(participants, LAMBDA p : p.id # id)
         /\ winners' = SelectSeq(winners, LAMBDA w : w # id)]_vars

\* a connected winner was logged out by force (two broadcasts: the socket's
\* disconnect handler and the command) while another winner stayed
C9_Witness ==
  /\ quizMode = "show_results"
  /\ broadcasts = 2
  /\ Len(winners) = 1
  /\ \E id \in barred : id \notin Range(winners) /\ id \notin ParticipantIds

\* C10: in every reachable state whose phase is not fastest_finger, timer = 0.
C10_TimerZeroOutsideWindow == quizMode # "fastest_finger" => timer = 0

\* C11: an id leaves winners only in a step of an administrator's removal
\* command (resetWinner, resetAllWinners, forceLogoutParticipant); in every
\* other step the winners before the step are still winners after it.
C11_WinnersLeaveOnlyByAdmin ==
  [][\/ Range(winners) \subseteq Range(winners')
     \/ \E playerId \in PlayerIds : ResetWinner(playerId)
     \/ ResetAllWinners
     \/ \E playerId \in PlayerIds : ForceLogoutParticipant(playerId)]_vars

\* ---- history across quizzes ---------------------------------------------
\* Two players have joined, each on a connection of their own, and stay; the
\* administrator runs one quiz more than in Spec, so that a quiz is started
\* and answered while an earlier one is logged.
InitHistory ==
  /\ quizMode = "idle"
  /\ currentQuiz = initialQuizState
  /\ submissions = <<>>
  /\ timer = 0
  /\ participants = [k \in 1..MaxPlayerId |-> [id |-> k, name |-> "A"]]
  /\ winners = <<>>
  /\ history = <<>>
  /\ timerInterval = FALSE
  /\ sockets = [k \in 1..MaxPlayerId |-> [playerId |-> k, playerName |-> "A"]]
  /\ broadcasts = 1
  /\ ticks = 0
  /\ barred = {}

StartQuizAgain(quiz) ==
  /\ Len(history) <= MaxHistory
  /\ startQuiz(quiz)

NextHistory ==
  \/ \E i \in 1..MaxPlayerId, answerIndex \in Answers, now \in Clock :
       SubmitAnswer(i, answerIndex, now)
  \/ Tick
  \/ \E quiz \in Quizzes : StartQuizAgain(quiz)
  \/ ForceEndQuiz
  \/ ShowResults
  \/ ResetQuiz
  \/ ResetAllWinners
  \/ ClearHistory

SpecHistory == InitHistory /\ [][NextHistory]_vars

\* C12: once a history entry is appended, its quiz and its submissions never
\* change in any later state until clearHistory removes it.
C12_LoggedEntriesFrozen ==
  [][\/ ClearHistory
     \/ /\ Len(history') >= Len(history)
        /\ \A k \in 1..Len(history) : Logged(history')[k] = Logged(history)[k]]_vars

\* a quiz was logged, a later quiz was started and answered, and the logged
\* entry still holds the answers of its own quiz
C12_Witness ==
  /\ quizMode = "fastest_finger"
  /\ Len(history) >= 1
  /\ Len(history[1].submissions) >= 1
  /\ Len(submissions) >= 1
  /\ history[1].submissions # submissions

\* C13: between two consecutive startQuiz commands at most one history entry
\* is appended: an entry is appended only from fastest_finger with the
\* countdown pending, when no entry has been logged since the quiz started,
\* and the step leaves reveal_answer with the countdown stopped, so neither
\* forceEndQuiz nor a tick can log the same quiz again.
C13_OneEntryPerQuiz ==
  [][Len(history') > Len(history) =>
       /\ Len(history') = Len(history) + 1
       /\ quizMode = "fastest_finger"
       /\ timerInterval
       /\ \A k \in 1..Len(history) : ~history[k].alias
       /\ quizMode' = "reveal_answer"
       /\ ~timerInterval']_vars

\* the administrator closed the second quiz with seconds left on the timer:
\* one entry per quiz, and the countdown that would have expired is stopped
C13_Witness ==
  /\ quizMode = "reveal_answer"
  /\ Len(history) = 2
  /\ ~history[1].alias
  /\ history[2].alias
  /\ timer > 0
  /\ ~timerInterval

\* C14: showResults outside reveal_answer and forceEndQuiz outside
\* fastest_finger leave the whole AppState and the countdown unchanged and
\* broadcast nothing.
C14_WrongPhaseCommandsAreNoOps ==
  [][/\ (ShowResults /\ quizMode # "reveal_answer") =>
          UNCHANGED <<appState, timerInterval>> /\ broadcasts' = 0
     /\ (ForceEndQuiz /\ quizMode # "fastest_finger") =>
          UNCHANGED <<appState, timerInterval>> /\ broadcasts' = 0]_vars

\* the window was closed by force with seconds left, and the handler that ran
\* last (a repeated forceEndQuiz among them) broadcast nothing
C14_Witness ==
  /\ quizMode = "reveal_answer"
  /\ timer > 0
  /\ broadcasts = 0
  /\ Len(history) = 1
  /\ Len(sockets) = MaxSockets
  /\ \A i \in 1..Len(sockets) : sockets[i].playerId # NoId

\* C15: the phase becomes reveal_answer only from fastest_finger (forceEndQuiz
\* or timer expiry), show_results only from reveal_answer (showResults),
\* fastest_finger only by startQuiz and idle only by resetQuiz; no other event
\* changes the phase.
C15_PhaseCycle ==
  [][quizMode' # quizMode =>
       /\ quizMode' = "reveal_answer" =>
            quizMode = "fastest_finger" /\ (ForceEndQuiz \/ Tick)
       /\ quizMode' = "show_results" => quizMode = "reveal_answer" /\ ShowResults
       /\ quizMode' = "fastest_finger" => \E quiz \in Quizzes : StartQuiz(quiz)
       /\ quizMode' = "idle" => ResetQuiz]_vars

\* a whole cycle has run: a quiz was started, closed, resolved with a winner
\* and reset
C15_Witness ==
  /\ quizMode = "idle"
  /\ barred # {}
  /\ Len(history) = 1
  /\ history[1].quiz.correctAnswerIndex # Null

\* C16: in every reachable state each player id occurs at most once in
\* participants and at most once in winners.
C16_IdsOccurOnce ==
  /\ \A j, k \in 1..Len(participants) :
       j # k => participants[j].id # participants[k].id
  /\ \A j, k \in 1..Len(winners) : j # k => winners[j] # winners[k]

\* the same id joined on two connections and won a quiz
C16_Witness ==
  /\ Len(sockets) = 2
  /\ sockets[1].playerId = sockets[2].playerId
  /\ sockets[1].playerId \in ParticipantIds
  /\ sockets[1].playerId \in Range(winners)

\* C17: a player id bound to an open connection that completed join is
\* present in participants, also after another connection bound to the same
\* id has disconnected.
C17_BoundIdIsParticipant ==
  \A i \in 1..Len(sockets) :
    sockets[i].playerId # NoId => sockets[i].playerId \in ParticipantIds

\* ---- a countdown left to run ----------------------------------------------
\* The administrator issues commands only while no answer window is open;
\* participants connect, join and answer at any time. The interval set by
\* startTimer keeps firing as long as it is pending.
NextCountdown ==
  \/ Connection
  \/ \E i \in 1..MaxSockets, player \in Players : Join(i, player)
  \/ \E i \in 1..MaxSockets, answerIndex \in Answers, now \in Clock :
       SubmitAnswer(i, answerIndex, now)
  \/ Tick
  \/ quizMode # "fastest_finger" /\ \E quiz \in Quizzes : StartQuiz(quiz)
  \/ quizMode # "fastest_finger" /\ ShowResults
  \/ quizMode # "fastest_finger" /\ ResetQuiz
  \/ quizMode # "fastest_finger" /\ ClearHistory

SpecCountdown == Init /\ [][NextCountdown]_vars /\ WF_vars(Tick)

\* C18: under fairness of the timer ticks and with no administrator command
\* while the window is open, fastest_finger always leads to reveal_answer
\* with the countdown stopped.
C18_WindowEventuallyCloses ==
  (quizMode = "fastest_finger") ~> (quizMode = "reveal_answer" /\ ~timerInterval)

\* a countdown of MaxTimeLimit ran out on its own, answers in, and stopped
C18_Witness ==
  /\ quizMode = "reveal_answer"
  /\ ~timerInterval
  /\ currentQuiz.timeLimit = MaxTimeLimit
  /\ timer = 0
  /\ Len(submissions) >= 1

\* C19: in every reachable state a countdown is pending exactly when the
\* phase is fastest_finger, so a tick can fire in no other phase.
C19_CountdownIffWindowOpen ==
  /\ timerInterval <=> quizMode = "fastest_finger"
  /\ (ENABLED Tick) => quizMode = "fastest_finger"

\* a quiz closed by force with seconds left has been resolved: no countdown
\* is pending although the timer never reached 0
C19_Witness ==
  /\ quizMode = "show_results"
  /\ timer > 0
  /\ ~timerInterval
  /\ ~ENABLED Tick

\* ---- quizzes among three players ------------------------------------------
\* RMaxPlayerId players have joined, each on a connection of their own, and
\* stay connected while the administrator runs quizzes.
InitPlayers ==
  /\ quizMode = "idle"
  /\ currentQuiz = initialQuizState
  /\ submissions = <<>>
  /\ timer = 0
  /\ participants = [k \in 1..RMaxPlayerId |-> [id |-> k, name |-> "A"]]
  /\ winners = <<>>
  /\ history = <<>>
  /\ timerInterval = FALSE
  /\ sockets = [k \in 1..RMaxPlayerId |-> [playerId |-> k, playerName |-> "A"]]
  /\ broadcasts = 1
  /\ ticks = 0
  /\ barred = {}

NextPlayers ==
  \/ \E i \in 1..RMaxPlayerId, answerIndex \in Answers, now \in Clock :
       SubmitAnswer(i, answerIndex, now)
  \/ Tick
  \/ \E quiz \in Quizzes : StartQuiz(quiz)
  \/ ForceEndQuiz
  \/ ShowResults
  \/ ResetQuiz
  \/ \E playerId \in 1..RMaxPlayerId : ResetWinner(playerId)
  \/ ClearHistory

SpecPlayers == InitPlayers /\ [][NextPlayers]_vars

\* C20: while the phase is fastest_finger or reveal_answer no playerId of
\* submissions is in winners; so an accepted showResults adds exactly
\* min(2, number of submissions with the correct answerIndex) new ids.
C20_SubmittersAreNotWinners ==
  /\ [](quizMode \in {"fastest_finger", "reveal_answer"} =>
          Ids(submissions) \cap Range(winners) = {})
  /\ [][ResultsShown =>
          Cardinality(Range(winners') \ Range(winners)) =
            IF Cardinality(CorrectIdx) < 2 THEN Cardinality(CorrectIdx) ELSE 2]_vars

\* the winner of an earlier quiz stayed connected, and the next quiz, which
\* the two others answered correctly, added exactly those two
C20_Witness ==
  /\ quizMode = "show_results"
  /\ Len(winners) = 3
  /\ Cardinality(CorrectIdx) = 2
  /\ winners[1] \notin Ids(submissions)
====
